---------------------------- MODULE Spec2Model ----------------------------
(***************************************************************************)
(* A model of the Electrum light client's Agent                            *)
(* (src/electrum-client/Agent.ts) over its ElectrumApi connection          *)
(* (src/electrum-api/ElectrumApi.ts): the per-peer lifecycle sync() ->     *)
(* handshake -> head sync -> steady state with liveness pings -> close(),  *)
(* the block acceptance rule of onBlock, the synced guard of the query     *)
(* methods, the receipts subscriptions with the diff of onReceipts against *)
(* the baseline, and the calls whose result depends only on their          *)
(* arguments and on the peer's answers (getTransaction,                    *)
(* broadcastTransaction, estimateFees, the transport selection of the      *)
(* constructor).                                                           *)
(*                                                                         *)
(* The program is single-threaded and cooperative: a step of the model is  *)
(* one run of code between two suspension points (an await, a timer, a     *)
(* notification), so every action below is what one callback or one        *)
(* continuation of an async method does before it yields again.            *)
(***************************************************************************)
EXTENDS Integers, FiniteSets, Sequences, TLC

(***************************************************************************)
(* Bounds of the model.                                                    *)
(***************************************************************************)
MaxSyncCalls == 2      \* sync() invocations over the Agent's life
MaxCloseCalls == 2     \* close() invocations by the caller
MaxHeaders == 2        \* header notifications the peer sends
MaxPingRounds == 1     \* firings of the connectivity-check interval
MaxHeight == 1         \* block heights 0..MaxHeight
NumHashes == 2         \* distinct block hashes 1..NumHashes

Heights == 0..MaxHeight
Hashes == 1..NumHashes
SyncIds == 1..MaxSyncCalls

(***************************************************************************)
(* Values of the program.                                                  *)
(***************************************************************************)
GENESIS_HASH == "genesis"
GenesisAnswers == {GENESIS_HASH, "other"}   \* server.features.genesis_hash

ErrNotSynced == "Agent not synced"
ErrNotConnected == "Agent not connected"
ErrHandshakeTimeout == "Handshake timeout"
ErrIncompatible == "Incompatible protocol version"
ErrWrongGenesis == "Wrong genesis hash"
ErrBlockTimeout == "Block timeout"
ErrPingTimeout == "Ping timeout"
ErrRpc == "rpc error"          \* an RPC rejected by the channel or the peer
ErrInvalidProof == "Invalid merkle proof for given block height"
ErrTypeError == "TypeError"    \* a method called on the null connection
UserReason == "caller"         \* the reason a caller passes to close()

HandshakeErrors == {ErrHandshakeTimeout, ErrIncompatible, ErrWrongGenesis}

\* The methods that start with `if (!this.synced) throw ...`.
GuardedMethods ==
    {"getBalance", "getTransactionReceipts", "getTransaction", "getBlockHeader",
     "getFeeHistogram", "getMinimumRelayFee", "broadcastTransaction",
     "subscribe", "getPeers"}

NoCall == [method |-> "none", error |-> "none", rpc |-> FALSE]

\* A header as the peer announces it (blockHeaderToPlain keeps the height it
\* is given and decodes hash and previous hash from the raw header). The
\* genesis header, and only it, has no previous hash (written 0 here).
Headers ==
    {b \in [blockHeight : Heights, blockHash : Hashes, prevHash : Hashes \cup {0}] :
        (b.blockHeight = 0) <=> (b.prevHash = 0)}

VARIABLES
    connection,        \* Agent.connection is non-null
    established,       \* the socket of the connection is open
    handshaking,       \* Agent.handshaking
    syncing,           \* Agent.syncing
    synced,            \* Agent.synced
    pingInterval,      \* Agent.pingInterval: handle of the last interval, -1 at first
    intervals,         \* handles of the intervals that are running
    pingTimers,        \* running PING_TIMEOUT timers, one per ping() in flight
    pingRounds,        \* how often an interval has fired
    syncPc,            \* per sync() invocation: where it stands
    syncResult,        \* per sync() invocation: what its promise settled with
    headersSubscribed, \* requestHead() has subscribed onBlock
    headersSeen,       \* header notifications delivered so far
    pendingBlocks,     \* onBlock() runs suspended in getBlockHeader(h-1)
    BlockStore,        \* the process-wide header cache, a set of headers
    acceptedBlocks,    \* heights whose stored header was cached by onBlock's acceptance
    events,            \* how often each event was fired
    closeReasons,      \* the reasons CLOSE was fired with
    closeCalls,        \* close() invocations by the caller
    call,              \* the public query made by the last step, NoCall otherwise
    subscribed,        \* addresses whose receipts subscription is registered
    statuses,          \* status notifications the peer has sent so far
    pendingHistory,    \* status notifications whose get_history is in flight
    delivered,         \* the calls of onReceipts, in the order they were made
    knownReceipts,     \* Agent.knownReceipts: address -> baseline receipts
    TransactionStore,  \* the process-wide transaction cache: hashes it holds
    tasks,             \* onReceipts() runs suspended in getBlockHeader(height)
    txChecks,          \* the txCheck promises onReceipts has created
    txEvents,          \* TRANSACTION_ADDED / TRANSACTION_MINED firings
    ended,             \* calls of onReceipts that have returned or thrown
    thrown,            \* per thrown call of onReceipts: the receipt it threw at
    api                \* the last call on the API and what it gave

agentState == <<connection, handshaking, syncing, synced, pingInterval, intervals>>

vars == <<connection, established, handshaking, syncing, synced, pingInterval,
          intervals, pingTimers, pingRounds, syncPc, syncResult,
          headersSubscribed, headersSeen, pendingBlocks, BlockStore,
          acceptedBlocks, events, closeReasons, closeCalls, call,
          subscribed, statuses, pendingHistory, delivered, knownReceipts,
          TransactionStore, tasks, txChecks, txEvents, ended, thrown, api>>

receiptVars == <<subscribed, statuses, pendingHistory, delivered, knownReceipts,
                 TransactionStore, tasks, txChecks, txEvents, ended, thrown>>

NoApi == [method |-> "none"]

\* new Agent(peer, options) has run; nothing is subscribed, the caches are
\* empty.
InitReceipts ==
    /\ subscribed = {}
    /\ statuses = 0
    /\ pendingHistory = {}
    /\ delivered = <<>>
    /\ knownReceipts = <<>>
    /\ TransactionStore = {}
    /\ tasks = {}
    /\ txChecks = {}
    /\ txEvents = {}
    /\ ended = {}
    /\ thrown = {}
    /\ api = NoApi

Init ==
    /\ connection = TRUE
    /\ established = FALSE
    /\ handshaking = FALSE
    /\ syncing = FALSE
    /\ synced = FALSE
    /\ pingInterval = -1
    /\ intervals = {}
    /\ pingTimers = {}
    /\ pingRounds = 0
    /\ syncPc = [i \in SyncIds |-> "idle"]
    /\ syncResult = [i \in SyncIds |-> "none"]
    /\ headersSubscribed = FALSE
    /\ headersSeen = 0
    /\ pendingBlocks = {}
    /\ BlockStore = {}
    /\ acceptedBlocks = {}
    /\ events = [syncing |-> 0, synced |-> 0, close |-> 0, block |-> 0]
    /\ closeReasons = {}
    /\ closeCalls = 0
    /\ call = NoCall
    /\ InitReceipts

pingVars == <<pingInterval, intervals, pingTimers, pingRounds>>
syncVars == <<syncPc, syncResult>>
flagVars == <<handshaking, syncing, synced>>
blockVars == <<headersSubscribed, headersSeen, pendingBlocks, BlockStore, acceptedBlocks>>
eventVars == <<events, closeReasons>>

\* Observable.fire(event): one more firing of the event.
fire(ev, e) == [ev EXCEPT ![e] = @ + 1]

\* A promise of sync() settles.
settle(i, pc, result) ==
    /\ syncPc' = [syncPc EXCEPT ![i] = pc]
    /\ syncResult' = [syncResult EXCEPT ![i] = result]

(***************************************************************************)
(* The socket of the connection opens: waitForConnectionEstablished()      *)
(* resolves for every sync() waiting on it.                                *)
(***************************************************************************)
connectionEstablished ==
    /\ connection
    /\ ~established
    /\ established' = TRUE
    /\ syncPc' = [i \in SyncIds |->
                    IF syncPc[i] = "waitConn" THEN "connReady" ELSE syncPc[i]]
    /\ call' = NoCall
    /\ UNCHANGED <<connection, flagVars, pingVars, syncResult, blockVars,
                   eventVars, closeCalls>>
    /\ UNCHANGED <<receiptVars, api>>

(***************************************************************************)
(* sync(), up to its first await (Agent.ts 131-134).                       *)
(***************************************************************************)
sync(i) ==
    /\ syncPc[i] = "idle"
    /\ \A j \in SyncIds : j < i => syncPc[j] # "idle"
    /\ IF handshaking \/ syncing \/ synced
         THEN /\ settle(i, "returned", "undefined")
              /\ call' = [method |-> "sync", error |-> "none", rpc |-> FALSE]
         ELSE IF ~connection
           THEN /\ settle(i, "rejected", ErrTypeError)
                /\ call' = [method |-> "sync", error |-> ErrTypeError, rpc |-> FALSE]
           ELSE /\ settle(i, IF established THEN "connReady" ELSE "waitConn", "none")
                /\ call' = [method |-> "sync", error |-> "none", rpc |-> FALSE]
    /\ UNCHANGED <<connection, established, flagVars, pingVars, blockVars,
                   eventVars, closeCalls>>
    /\ UNCHANGED <<receiptVars, api>>

(***************************************************************************)
(* sync() resumes after waitForConnectionEstablished(): it sets            *)
(* handshaking and enters handshake() (Agent.ts 136-137, 251-266), which   *)
(* throws when the connection is gone and otherwise starts the handshake   *)
(* timer and sends server.version.                                         *)
(***************************************************************************)
sync_connected(i) ==
    /\ syncPc[i] = "connReady"
    /\ handshaking' = TRUE
    /\ IF connection
         THEN settle(i, "hsVersion", "none")
         ELSE settle(i, "rejected", ErrNotConnected)
    /\ call' = NoCall
    /\ UNCHANGED <<connection, established, syncing, synced, pingVars,
                   blockVars, eventVars, closeCalls>>
    /\ UNCHANGED <<receiptVars, api>>

(***************************************************************************)
(* handshake(): setProtocolVersion answered (Agent.ts 262-273).            *)
(***************************************************************************)
handshake_versionOk(i) ==
    /\ syncPc[i] = "hsVersion"
    /\ connection /\ established
    /\ settle(i, "hsFeatures", "none")
    /\ call' = NoCall
    /\ UNCHANGED <<connection, established, flagVars, pingVars, blockVars,
                   eventVars, closeCalls>>
    /\ UNCHANGED <<receiptVars, api>>

(***************************************************************************)
(* handshake(): setProtocolVersion rejected (Agent.ts 267-270). The        *)
(* rejection leaves sync() at line 137: handshaking is not reset and       *)
(* nothing is fired.                                                       *)
(***************************************************************************)
handshake_versionFail(i) ==
    /\ syncPc[i] = "hsVersion"
    /\ settle(i, "rejected", ErrIncompatible)
    /\ call' = NoCall
    /\ UNCHANGED <<connection, established, flagVars, pingVars, blockVars,
                   eventVars, closeCalls>>
    /\ UNCHANGED <<receiptVars, api>>

(***************************************************************************)
(* handshake(): getFeatures answered with genesis hash g (Agent.ts         *)
(* 272-284). On the configured genesis the handshake resolves and sync()   *)
(* runs on to its return (Agent.ts 138-156): handshaking off, syncing on,  *)
(* SYNCING fired, the BLOCK listener and the block timer installed,        *)
(* requestHead() subscribes onBlock.                                       *)
(***************************************************************************)
handshake_features(i, g) ==
    /\ syncPc[i] = "hsFeatures"
    /\ connection /\ established
    /\ IF g = GENESIS_HASH
         THEN /\ handshaking' = FALSE
              /\ syncing' = TRUE
              /\ events' = fire(events, "syncing")
              /\ headersSubscribed' = TRUE
              /\ settle(i, "waitBlock", "none")
         ELSE /\ settle(i, "rejected", ErrWrongGenesis)
              /\ UNCHANGED <<handshaking, syncing, events, headersSubscribed>>
    /\ call' = NoCall
    /\ UNCHANGED <<connection, established, synced, pingVars, headersSeen,
                   pendingBlocks, BlockStore, acceptedBlocks, closeReasons,
                   closeCalls>>
    /\ UNCHANGED <<receiptVars, api>>

(***************************************************************************)
(* handshake(): getFeatures rejected (Agent.ts 276-279).                   *)
(***************************************************************************)
handshake_featuresFail(i) ==
    /\ syncPc[i] = "hsFeatures"
    /\ settle(i, "rejected", ErrRpc)
    /\ call' = NoCall
    /\ UNCHANGED <<connection, established, flagVars, pingVars, blockVars,
                   eventVars, closeCalls>>
    /\ UNCHANGED <<receiptVars, api>>

(***************************************************************************)
(* handshake(): the HANDSHAKE_TIMEOUT timer fires first (Agent.ts 257-260).*)
(***************************************************************************)
handshake_timeout(i) ==
    /\ syncPc[i] \in {"hsVersion", "hsFeatures"}
    /\ settle(i, "rejected", ErrHandshakeTimeout)
    /\ call' = NoCall
    /\ UNCHANGED <<connection, established, flagVars, pingVars, blockVars,
                   eventVars, closeCalls>>
    /\ UNCHANGED <<receiptVars, api>>

(***************************************************************************)
(* sync(): the block timer fires before a BLOCK event (Agent.ts 148-151).  *)
(***************************************************************************)
sync_blockTimeout(i) ==
    /\ syncPc[i] = "waitBlock"
    /\ settle(i, "rejected", ErrBlockTimeout)
    /\ call' = NoCall
    /\ UNCHANGED <<connection, established, flagVars, pingVars, blockVars,
                   eventVars, closeCalls>>
    /\ UNCHANGED <<receiptVars, api>>

(***************************************************************************)
(* BlockStore, the process-wide cache of headers keyed by height.          *)
(***************************************************************************)
BlockStoreGet(store, h) == {b \in store : b.blockHeight = h}

BlockStoreSet(store, block) ==
    {b \in store : b.blockHeight # block.blockHeight} \cup {block}

\* The block-acceptance test of onBlock (Agent.ts 315-318), prev being what
\* the lookup or the fetch of height h-1 gave (empty: nothing).
blockAccepted(block, prev) ==
    \/ (prev = {} /\ block.blockHeight = 0)
    \/ \E p \in prev : p.blockHash = block.prevHash

(***************************************************************************)
(* onBlock() from the acceptance test to its end (Agent.ts 315-333), on    *)
(* the store `store` whose accepted heights are `acc`. An accepted header  *)
(* is cached and BLOCK is fired: the once-listener of every sync() waiting *)
(* for it resolves its promise with the value synced has at that moment.   *)
(* Then, accepted or not, a syncing Agent becomes synced, fires SYNCED and *)
(* starts a new ping interval.                                             *)
(***************************************************************************)
onBlock_tail(block, store, acc) ==
    LET prev == BlockStoreGet(store, block.blockHeight - 1)
        ok   == blockAccepted(block, prev)
        ev1  == IF ok THEN fire(events, "block") ELSE events
    IN  /\ BlockStore' = IF ok THEN BlockStoreSet(store, block) ELSE store
        /\ acceptedBlocks' = IF ok THEN acc \cup {block.blockHeight} ELSE acc
        /\ syncPc' = [i \in SyncIds |->
                        IF ok /\ syncPc[i] = "waitBlock" THEN "resolved" ELSE syncPc[i]]
        /\ syncResult' = [i \in SyncIds |->
                        IF ok /\ syncPc[i] = "waitBlock"
                          THEN (IF synced THEN "true" ELSE "false")
                          ELSE syncResult[i]]
        /\ IF syncing
             THEN /\ syncing' = FALSE
                  /\ synced' = TRUE
                  /\ events' = fire(ev1, "synced")
                  /\ pingInterval' = events.synced + 1
                  /\ intervals' = intervals \cup {events.synced + 1}
             ELSE /\ events' = ev1
                  /\ UNCHANGED <<syncing, synced, pingInterval, intervals>>

(***************************************************************************)
(* A header notification: onBlock(block) up to its await or, when the      *)
(* previous header is cached or the height is 0, to its end (Agent.ts      *)
(* 308-334).                                                               *)
(***************************************************************************)
onBlock(block) ==
    /\ headersSubscribed /\ connection /\ established
    /\ headersSeen < MaxHeaders
    /\ headersSeen' = headersSeen + 1
    /\ IF BlockStoreGet(BlockStore, block.blockHeight - 1) = {} /\ block.blockHeight > 0
         THEN /\ pendingBlocks' = pendingBlocks \cup {block}
              /\ UNCHANGED <<BlockStore, acceptedBlocks, syncVars, syncing, synced,
                             events, pingInterval, intervals>>
         ELSE /\ onBlock_tail(block, BlockStore, acceptedBlocks)
              /\ UNCHANGED pendingBlocks
    /\ call' = NoCall
    /\ UNCHANGED <<connection, established, handshaking, pingTimers, pingRounds,
                   headersSubscribed, closeReasons, closeCalls>>
    /\ UNCHANGED <<receiptVars, api>>

(***************************************************************************)
(* onBlock() resumes with the fetched previous header: it is cached        *)
(* unchecked (Agent.ts 312-313) and the run goes on to its end.            *)
(***************************************************************************)
onBlock_fetched(block, prevBlock) ==
    /\ block \in pendingBlocks
    /\ connection /\ established
    /\ prevBlock.blockHeight = block.blockHeight - 1
    /\ pendingBlocks' = pendingBlocks \ {block}
    /\ onBlock_tail(block, BlockStoreSet(BlockStore, prevBlock),
                    acceptedBlocks \ {prevBlock.blockHeight})
    /\ call' = NoCall
    /\ UNCHANGED <<connection, established, handshaking, pingTimers, pingRounds,
                   headersSubscribed, headersSeen, closeReasons, closeCalls>>
    /\ UNCHANGED <<receiptVars, api>>

(***************************************************************************)
(* The fetch of the previous header is rejected: onBlock() throws at line  *)
(* 312 and changes nothing.                                                *)
(***************************************************************************)
onBlock_fetchFailed(block) ==
    /\ block \in pendingBlocks
    /\ pendingBlocks' = pendingBlocks \ {block}
    /\ call' = NoCall
    /\ UNCHANGED <<connection, established, flagVars, pingVars, syncVars,
                   headersSubscribed, headersSeen, BlockStore, acceptedBlocks,
                   eventVars, closeCalls>>
    /\ UNCHANGED <<receiptVars, api>>

(***************************************************************************)
(* close(reason) (Agent.ts 225-233). CLOSE is fired on every call. Only   *)
(* the interval whose handle pingInterval holds is cleared; the running    *)
(* PING_TIMEOUT timers are not. Closing the connection closes the socket,  *)
(* which delivers no notification any more.                                *)
(***************************************************************************)
close(reason) ==
    /\ connection' = FALSE
    /\ established' = FALSE
    /\ headersSubscribed' = FALSE
    /\ syncing' = FALSE
    /\ synced' = FALSE
    /\ events' = fire(events, "close")
    /\ closeReasons' = closeReasons \cup {reason}
    /\ intervals' = intervals \ {pingInterval}
    /\ UNCHANGED <<handshaking, pingInterval, pingRounds, syncVars, headersSeen,
                   pendingBlocks, BlockStore, acceptedBlocks>>

\* close() called by the owner of the Agent.
close_call ==
    /\ closeCalls < MaxCloseCalls
    /\ closeCalls' = closeCalls + 1
    /\ close(UserReason)
    /\ call' = [method |-> "close", error |-> "none", rpc |-> FALSE]
    /\ UNCHANGED pingTimers
    /\ UNCHANGED <<receiptVars, api>>

(***************************************************************************)
(* ping(failedTries) (Agent.ts 287-299): a PING_TIMEOUT timer is started   *)
(* and server.ping is sent; on the null connection the call throws inside  *)
(* the try and the timer keeps running.                                    *)
(***************************************************************************)
newPing(failedTries) ==
    [failedTries |-> failedTries,
     rpc |-> IF connection THEN "pending" ELSE "failed"]

\* The connectivity-check interval fires: ping() with failedTries = 0
\* (Agent.ts 329-332).
ping_interval ==
    /\ intervals # {}
    /\ pingRounds < MaxPingRounds
    /\ pingRounds' = pingRounds + 1
    /\ pingTimers' = pingTimers \cup {newPing(0)}
    /\ call' = NoCall
    /\ UNCHANGED <<connection, established, flagVars, pingInterval, intervals,
                   syncVars, blockVars, eventVars, closeCalls>>
    /\ UNCHANGED <<receiptVars, api>>

\* server.ping is answered before the timer fires: clearTimeout (Agent.ts 294-295).
ping_answered(t) ==
    /\ t \in pingTimers
    /\ t.rpc = "pending"
    /\ connection /\ established
    /\ pingTimers' = pingTimers \ {t}
    /\ call' = NoCall
    /\ UNCHANGED <<connection, established, flagVars, pingInterval, intervals,
                   pingRounds, syncVars, blockVars, eventVars, closeCalls>>
    /\ UNCHANGED <<receiptVars, api>>

\* server.ping is rejected: the error is ignored, the timer keeps running
\* (Agent.ts 296-298).
ping_rejected(t) ==
    /\ t \in pingTimers
    /\ t.rpc = "pending"
    /\ pingTimers' = (pingTimers \ {t}) \cup {[t EXCEPT !.rpc = "failed"]}
    /\ call' = NoCall
    /\ UNCHANGED <<connection, established, flagVars, pingInterval, intervals,
                   pingRounds, syncVars, blockVars, eventVars, closeCalls>>
    /\ UNCHANGED <<receiptVars, api>>

\* Whether the timer callback of ping(failedTries) closes the Agent
\* (Agent.ts 289).
pingGivesUp(failedTries) == failedTries > 1

\* The PING_TIMEOUT timer of a ping fires (Agent.ts 288-291).
ping_timeout(t) ==
    /\ t \in pingTimers
    /\ IF pingGivesUp(t.failedTries)
         THEN /\ close(ErrPingTimeout)
              /\ pingTimers' = pingTimers \ {t}
         ELSE /\ pingTimers' = (pingTimers \ {t}) \cup {newPing(t.failedTries + 1)}
              /\ UNCHANGED <<connection, established, flagVars, pingInterval,
                             intervals, pingRounds, syncVars, blockVars, eventVars>>
    /\ call' = NoCall
    /\ UNCHANGED closeCalls
    /\ UNCHANGED <<receiptVars, api>>

(***************************************************************************)
(* The query methods guarded by synced (Agent.ts 159-223): what a call of  *)
(* method m does first. Not synced, it throws; synced, it hands the        *)
(* request to the connection.                                              *)
(***************************************************************************)
\* A query method that lost its guard: getPeers goes to the connection
\* whatever synced is.
queryOutcome_unguarded(m) ==
    IF ~synced /\ m # "getPeers"
      THEN [method |-> "query", error |-> ErrNotSynced, rpc |-> FALSE]
      ELSE IF connection
        THEN [method |-> "query", error |-> "none", rpc |-> TRUE]
        ELSE [method |-> "query", error |-> ErrTypeError, rpc |-> FALSE]

queryOutcome(m) ==
    IF ~synced
      THEN [method |-> "query", error |-> ErrNotSynced, rpc |-> FALSE]
      ELSE IF connection
        THEN [method |-> "query", error |-> "none", rpc |-> TRUE]
        ELSE [method |-> "query", error |-> ErrTypeError, rpc |-> FALSE]

query(m) ==
    /\ call' = queryOutcome(m)
    /\ UNCHANGED <<connection, established, flagVars, pingVars, syncVars,
                   blockVars, eventVars, closeCalls>>
    /\ UNCHANGED <<receiptVars, api>>

(***************************************************************************)
(* estimateFees(targetBlocks) for a non-empty list (Agent.ts 183-188): no  *)
(* synced guard; one estimateFee request per target on the connection.     *)
(***************************************************************************)
estimateFees ==
    /\ call' = IF connection
                 THEN [method |-> "estimateFees", error |-> "none", rpc |-> TRUE]
                 ELSE [method |-> "estimateFees", error |-> ErrTypeError, rpc |-> FALSE]
    /\ UNCHANGED <<connection, established, flagVars, pingVars, syncVars,
                   blockVars, eventVars, closeCalls>>
    /\ UNCHANGED <<receiptVars, api>>

Next ==
    \/ connectionEstablished
    \/ \E i \in SyncIds : sync(i)
    \/ \E i \in SyncIds : sync_connected(i)
    \/ \E i \in SyncIds : handshake_versionOk(i)
    \/ \E i \in SyncIds : handshake_versionFail(i)
    \/ \E i \in SyncIds, g \in GenesisAnswers : handshake_features(i, g)
    \/ \E i \in SyncIds : handshake_featuresFail(i)
    \/ \E i \in SyncIds : handshake_timeout(i)
    \/ \E i \in SyncIds : sync_blockTimeout(i)
    \/ \E block \in Headers : onBlock(block)
    \/ \E block \in Headers, prevBlock \in Headers : onBlock_fetched(block, prevBlock)
    \/ \E block \in Headers : onBlock_fetchFailed(block)
    \/ close_call
    \/ ping_interval
    \/ \E t \in pingTimers : ping_answered(t)
    \/ \E t \in pingTimers : ping_rejected(t)
    \/ \E t \in pingTimers : ping_timeout(t)
    \/ \E m \in GuardedMethods : query(m)
    \/ estimateFees

Spec == Init /\ [][Next]_vars

(***************************************************************************)
(* The Agent as its callers see it: every public method, the whole of      *)
(* sync() and of the handshake with their failures, and a peer that        *)
(* announces genesis-height headers. The ping interval is started but its  *)
(* callbacks, which no public method calls, are left out.                  *)
(***************************************************************************)
GenesisHeaders == {b \in Headers : b.blockHeight = 0}

NextQueries ==
    \/ connectionEstablished
    \/ \E i \in SyncIds : sync(i)
    \/ \E i \in SyncIds : sync_connected(i)
    \/ \E i \in SyncIds : handshake_versionOk(i)
    \/ \E i \in SyncIds : handshake_versionFail(i)
    \/ \E i \in SyncIds, g \in GenesisAnswers : handshake_features(i, g)
    \/ \E i \in SyncIds : handshake_featuresFail(i)
    \/ \E i \in SyncIds : handshake_timeout(i)
    \/ \E i \in SyncIds : sync_blockTimeout(i)
    \/ \E block \in GenesisHeaders : onBlock(block)
    \/ close_call
    \/ \E m \in GuardedMethods : query(m)
    \/ estimateFees

SpecQueries == Init /\ [][NextQueries]_vars

(***************************************************************************)
(* Transactions and receipts.                                              *)
(***************************************************************************)
NumAddresses == 2      \* addresses the caller subscribes
NumTxs == 2            \* distinct transaction hashes 1..NumTxs
MaxReceipts == 2       \* receipts in the history of an address
MaxStatuses == 2       \* status notifications the peer sends

Addresses == 1..NumAddresses
TxHashes == 1..NumTxs

\* null in a field that holds a hash, a height or a timestamp otherwise.
Null == -9

\* The heights of a history entry: -1 and 0 are unconfirmed.
ReceiptHeights == {-1} \cup Heights

\* What blockchain.scripthash.get_history answers: entries keyed as the
\* protocol names them, each transaction listed once.
PeerHistories ==
    {h \in UNION {[1..n -> [tx_hash : TxHashes, height : ReceiptHeights]] :
                     n \in 0..MaxReceipts} :
        \A i, j \in DOMAIN h : h[i].tx_hash = h[j].tx_hash => i = j}

\* getReceipts (ElectrumApi.ts 52-61): the entries under the client's names.
getReceipts(history) ==
    [i \in DOMAIN history |->
        [transactionHash |-> history[i].tx_hash,
         blockHeight |-> history[i].height]]

\* The merkle root a header carries. The block hash commits to it, so a
\* header's root is written as the header's hash: two headers agree on one
\* exactly when they agree on the other.
merkleRoot(block) == block.blockHash

\* The timestamp a header carries, written as the header's height.
headerTimestamp(block) == block.blockHeight

\* transactionToPlain(raw, plainHeader) (ElectrumApi.ts 278-306), of the
\* transaction with hash `hash`: the block fields are null unless a header
\* is given (header: the empty set or one header).
transactionToPlain(hash, header) ==
    IF header = {}
      THEN [transactionHash |-> hash, blockHash |-> Null,
            blockHeight |-> Null, timestamp |-> Null]
      ELSE LET b == CHOOSE b \in header : TRUE
           IN  [transactionHash |-> hash, blockHash |-> b.blockHash,
                blockHeight |-> b.blockHeight, timestamp |-> headerTimestamp(b)]

\* The second argument of getTransaction: nothing, a height or a header.
NoArg == [type |-> "undefined", height |-> 0, header |-> {}]
HeightArg(h) == [type |-> "number", height |-> h, header |-> {}]
HeaderArg(header) ==
    [type |-> IF header = {} THEN "undefined" ELSE "object",
     height |-> 0, header |-> header]

NoTransaction == transactionToPlain(0, {})

(***************************************************************************)
(* getTransaction(hash, heightOrBlockHeader) (ElectrumApi.ts 122-141)      *)
(* against a peer that answers blockchain.block.header with peer.header    *)
(* (empty: the request fails), blockchain.transaction.get_merkle with a    *)
(* branch that folds to peer.root (0: the request fails) and               *)
(* blockchain.transaction.get with the raw transaction or, peer.raw being  *)
(* FALSE, a failure. The result tells which requests were sent.            *)
(***************************************************************************)
getTransaction_unproven(hash, arg, peer) ==
    LET fetch  == arg.type = "number" /\ arg.height > 0
        header == IF arg.type = "object" THEN arg.header
                  ELSE IF fetch THEN peer.header ELSE {}
        fail(e, m) == [ok |-> FALSE, error |-> e, fetched |-> fetch,
                       merkle |-> m, tx |-> NoTransaction]
    IN  IF fetch /\ peer.header = {} THEN fail(ErrRpc, FALSE)
        ELSE IF header # {} /\ peer.root = 0 THEN fail(ErrRpc, TRUE)
        ELSE IF ~peer.raw THEN fail(ErrRpc, header # {})
        ELSE [ok |-> TRUE, error |-> "none", fetched |-> fetch,
              merkle |-> header # {}, tx |-> transactionToPlain(hash, header)]

getTransaction(hash, arg, peer) ==
    LET fetch  == arg.type = "number" /\ arg.height > 0
        header == IF arg.type = "object" THEN arg.header
                  ELSE IF fetch THEN peer.header ELSE {}
        fail(e, m) == [ok |-> FALSE, error |-> e, fetched |-> fetch,
                       merkle |-> m, tx |-> NoTransaction]
    IN  IF fetch /\ peer.header = {} THEN fail(ErrRpc, FALSE)
        ELSE IF header # {} /\ peer.root = 0 THEN fail(ErrRpc, TRUE)
        ELSE IF header # {} /\ \E b \in header : peer.root # merkleRoot(b)
               THEN fail(ErrInvalidProof, TRUE)
        ELSE IF ~peer.raw THEN fail(ErrRpc, header # {})
        ELSE [ok |-> TRUE, error |-> "none", fetched |-> fetch,
              merkle |-> header # {}, tx |-> transactionToPlain(hash, header)]

\* proofTransaction(hash, block): the standalone proof of inclusion, which
\* succeeds when the branch the peer sends folds to the header's root.
proofTransaction(root, block) ==
    root # 0 /\ \A b \in block : root = merkleRoot(b)

(***************************************************************************)
(* Agent.knownReceipts and the diff of onReceipts (Agent.ts 336-389).      *)
(***************************************************************************)
\* new Map(receipts.map(r => [r.transactionHash, r])) (Agent.ts 339): a
\* later entry of the same hash replaces an earlier one.
receiptsMap_none(receipts) == {}

receiptsMap(receipts) ==
    {receipts[i] : i \in {i \in DOMAIN receipts :
        \A j \in DOMAIN receipts :
            receipts[j].transactionHash = receipts[i].transactionHash => j <= i}}

\* Agent.ts 347-348: a receipt is skipped when the baseline has its hash
\* at its height.
receiptChanged(known, receipt) ==
    ~\E k \in known : /\ k.transactionHash = receipt.transactionHash
                      /\ k.blockHeight = receipt.blockHeight

\* Agent.ts 373-377: what txCheck is for a transaction found in the store.
storedTxCheck_noProof(block) == "stored"

storedTxCheck(block) ==
    IF block # {} THEN "proofTransaction" ELSE "stored"

\* Agent.ts 366-377: the txCheck promise of a receipt.
newTxCheck(n, receipt, block) ==
    [n |-> n, receipt |-> receipt, block |-> block,
     kind |-> IF receipt.transactionHash \notin TransactionStore
                THEN "getTransaction" ELSE storedTxCheck(block),
     state |-> "pending", root |-> 0]

\* Agent.ts 379-385: the event a resolved txCheck fires.
txEvent_added(c) ==
    [n |-> c.n, transactionHash |-> c.receipt.transactionHash,
     event |-> "TRANSACTION_ADDED", block |-> c.block]

txEvent(c) ==
    [n |-> c.n, transactionHash |-> c.receipt.transactionHash,
     event |-> IF c.block # {} THEN "TRANSACTION_MINED" ELSE "TRANSACTION_ADDED",
     block |-> c.block]

(***************************************************************************)
(* One run of the loop of onReceipts (Agent.ts 345-388) over the receipts  *)
(* rs on the header cache `store`, up to where it suspends in              *)
(* getBlockHeader, throws or returns. It throws where it calls the guarded *)
(* getBlockHeader while not synced or a method of the null connection.     *)
(***************************************************************************)
RECURSIVE onReceipts_run(_, _, _, _)
onReceipts_run(n, known, rs, store) ==
    IF rs = <<>> THEN [checks |-> {}, rest |-> rs, end |-> "returned"]
    ELSE
      LET receipt == Head(rs)
          block   == IF receipt.blockHeight > 0
                       THEN BlockStoreGet(store, receipt.blockHeight) ELSE {}
          check   == newTxCheck(n, receipt, block)
      IN  IF ~receiptChanged(known, receipt)
            THEN onReceipts_run(n, known, Tail(rs), store)
          ELSE IF receipt.blockHeight > 0 /\ block = {}
            THEN [checks |-> {}, rest |-> rs,
                  end |-> IF synced THEN "awaitHeader" ELSE "thrown"]
          ELSE IF check.kind # "stored" /\ ~connection
            THEN [checks |-> {}, rest |-> rs, end |-> "thrown"]
          ELSE LET more == onReceipts_run(n, known, Tail(rs), store)
               IN  [more EXCEPT !.checks = @ \cup {check}]

\* The run n of onReceipts goes on over rs; `others` are the suspended runs
\* it is not.
onReceipts_loop(n, address, rs, store, others) ==
    LET run == onReceipts_run(n, knownReceipts[address], rs, store)
    IN  /\ txChecks' = txChecks \cup run.checks
        /\ tasks' = IF run.end = "awaitHeader"
                      THEN others \cup {[n |-> n, address |-> address, rest |-> run.rest]}
                      ELSE others
        /\ ended' = IF run.end = "awaitHeader" THEN ended ELSE ended \cup {n}
        /\ thrown' = IF run.end = "thrown"
                       THEN thrown \cup {[n |-> n, receipt |-> Head(run.rest)]}
                       ELSE thrown

\* onReceipts(address, receipts) from its call to its first suspension
\* (Agent.ts 336-389), called for the status notification k.
onReceipts(k, address, receipts) ==
    /\ delivered' = Append(delivered, [k |-> k, address |-> address, receipts |-> receipts])
    /\ IF address \notin DOMAIN knownReceipts
         THEN /\ knownReceipts' =
                    [a \in DOMAIN knownReceipts \cup {address} |->
                        IF a = address THEN receiptsMap(receipts) ELSE knownReceipts[a]]
              /\ ended' = ended \cup {Len(delivered) + 1}
              /\ UNCHANGED <<tasks, txChecks, thrown>>
         ELSE /\ onReceipts_loop(Len(delivered) + 1, address, receipts, BlockStore, tasks)
              /\ UNCHANGED knownReceipts
    /\ UNCHANGED <<TransactionStore, txEvents>>

lifecycleVars == <<connection, established, flagVars, pingVars, syncVars,
                   headersSubscribed, headersSeen, pendingBlocks, eventVars, closeCalls>>

\* subscribe(address) (Agent.ts 208-217, ElectrumApi.ts 191-199).
subscribe(address) ==
    /\ address \notin subscribed
    /\ IF synced
         THEN /\ subscribed' = subscribed \cup {address}
              /\ call' = [method |-> "subscribe", error |-> "none", rpc |-> TRUE]
         ELSE /\ call' = [method |-> "subscribe", error |-> ErrNotSynced, rpc |-> FALSE]
              /\ UNCHANGED subscribed
    /\ UNCHANGED <<lifecycleVars, BlockStore, acceptedBlocks, api, statuses,
                   pendingHistory, delivered, knownReceipts, TransactionStore,
                   tasks, txChecks, txEvents, ended, thrown>>

(***************************************************************************)
(* The peer sends the status of a subscribed address, as the answer to the *)
(* subscription or as a notification (ElectrumApi.ts 192-198). A null      *)
(* status calls the callback at once with no receipts; any other status    *)
(* requests the history first.                                             *)
(***************************************************************************)
receiptsStatus_upTo(max, address, hasStatus) ==
    /\ address \in subscribed
    /\ connection /\ established
    /\ statuses < max
    /\ statuses' = statuses + 1
    /\ IF hasStatus
         THEN /\ pendingHistory' = pendingHistory \cup {[k |-> statuses + 1, address |-> address]}
              /\ UNCHANGED <<delivered, knownReceipts, TransactionStore, tasks,
                             txChecks, txEvents, ended, thrown>>
         ELSE /\ onReceipts(statuses + 1, address, <<>>)
              /\ UNCHANGED pendingHistory
    /\ call' = NoCall
    /\ UNCHANGED <<lifecycleVars, BlockStore, acceptedBlocks, api, subscribed>>

receiptsStatus(address, hasStatus) == receiptsStatus_upTo(MaxStatuses, address, hasStatus)

\* get_history is answered: the callback is called with the receipts
\* (ElectrumApi.ts 195, 52-61).
receiptsHistory(p, history) ==
    /\ p \in pendingHistory
    /\ connection /\ established
    /\ pendingHistory' = pendingHistory \ {p}
    /\ onReceipts(p.k, p.address, getReceipts(history))
    /\ call' = NoCall
    /\ UNCHANGED <<lifecycleVars, BlockStore, acceptedBlocks, api, subscribed, statuses>>

\* get_history fails: the callback is not called.
receiptsHistory_failed(p) ==
    /\ p \in pendingHistory
    /\ pendingHistory' = pendingHistory \ {p}
    /\ call' = NoCall
    /\ UNCHANGED <<lifecycleVars, BlockStore, acceptedBlocks, api, subscribed, statuses,
                   delivered, knownReceipts, TransactionStore, tasks, txChecks,
                   txEvents, ended, thrown>>

\* onReceipts resumes with the header it fetched (Agent.ts 358-360).
onReceipts_header(t, block) ==
    /\ t \in tasks
    /\ connection /\ established
    /\ block.blockHeight = Head(t.rest).blockHeight
    /\ BlockStore' = BlockStoreSet(BlockStore, block)
    /\ acceptedBlocks' = acceptedBlocks \ {block.blockHeight}
    /\ onReceipts_loop(t.n, t.address, t.rest, BlockStoreSet(BlockStore, block),
                       tasks \ {t})
    /\ call' = NoCall
    /\ UNCHANGED <<lifecycleVars, api, subscribed, statuses, pendingHistory,
                   delivered, knownReceipts, TransactionStore, txEvents>>

\* The fetch of the header fails: onReceipts throws at line 358.
onReceipts_headerFailed(t) ==
    /\ t \in tasks
    /\ tasks' = tasks \ {t}
    /\ ended' = ended \cup {t.n}
    /\ thrown' = thrown \cup {[n |-> t.n, receipt |-> Head(t.rest)]}
    /\ call' = NoCall
    /\ UNCHANGED <<lifecycleVars, BlockStore, acceptedBlocks, api, subscribed, statuses,
                   pendingHistory, delivered, knownReceipts, TransactionStore,
                   txChecks, txEvents>>

(***************************************************************************)
(* A txCheck settles with every request it made answered, the merkle       *)
(* branch folding to `root` (Agent.ts 366-386): a resolved getTransaction  *)
(* caches the transaction, and a resolved txCheck fires its event.         *)
(***************************************************************************)
txCheck_answered(c, root) ==
    /\ c \in txChecks
    /\ c.state = "pending"
    /\ c.kind # "stored" => (connection /\ established)
    /\ LET ok == CASE c.kind = "getTransaction" ->
                        getTransaction(c.receipt.transactionHash, HeaderArg(c.block),
                                       [header |-> {}, root |-> root, raw |-> TRUE]).ok
                   [] c.kind = "proofTransaction" -> proofTransaction(root, c.block)
                   [] OTHER -> TRUE
       IN  /\ txChecks' = (txChecks \ {c}) \cup
                  {[c EXCEPT !.state = IF ok THEN "resolved" ELSE "rejected",
                             !.root = IF c.block = {} THEN 0 ELSE root]}
           /\ TransactionStore' =
                  IF ok /\ c.kind = "getTransaction"
                    THEN TransactionStore \cup {c.receipt.transactionHash}
                    ELSE TransactionStore
           /\ txEvents' = IF ok THEN txEvents \cup {txEvent(c)} ELSE txEvents
    /\ call' = NoCall
    /\ UNCHANGED <<lifecycleVars, BlockStore, acceptedBlocks, api, subscribed, statuses,
                   pendingHistory, delivered, knownReceipts, tasks, ended, thrown>>

\* A request of a txCheck fails: the error is logged (Agent.ts 386).
txCheck_failed(c) ==
    /\ c \in txChecks
    /\ c.state = "pending"
    /\ c.kind # "stored"
    /\ txChecks' = (txChecks \ {c}) \cup {[c EXCEPT !.state = "rejected"]}
    /\ call' = NoCall
    /\ UNCHANGED <<lifecycleVars, BlockStore, acceptedBlocks, api, subscribed, statuses,
                   pendingHistory, delivered, knownReceipts, TransactionStore,
                   tasks, txEvents, ended, thrown>>

(***************************************************************************)
(* A synced Agent, as sync() leaves it after the peer announced the        *)
(* genesis header (the state Spec reaches by connectionEstablished, sync,  *)
(* sync_connected, handshake_versionOk, handshake_features and onBlock),   *)
(* and what follows for the addresses it subscribes.                       *)
(***************************************************************************)
GenesisHeader == [blockHeight |-> 0, blockHash |-> 1, prevHash |-> 0]

Synced ==
    /\ connection = TRUE
    /\ established = TRUE
    /\ handshaking = FALSE
    /\ syncing = FALSE
    /\ synced = TRUE
    /\ pingInterval = 1
    /\ intervals = {1}
    /\ pingTimers = {}
    /\ pingRounds = 0
    /\ syncPc = [i \in SyncIds |-> IF i = 1 THEN "resolved" ELSE "idle"]
    /\ syncResult = [i \in SyncIds |-> IF i = 1 THEN "false" ELSE "none"]
    /\ headersSubscribed = TRUE
    /\ headersSeen = 1
    /\ pendingBlocks = {}
    /\ BlockStore = {GenesisHeader}
    /\ acceptedBlocks = {0}
    /\ events = [syncing |-> 1, synced |-> 1, close |-> 0, block |-> 1]
    /\ closeReasons = {}
    /\ closeCalls = 0
    /\ call = NoCall

\* The transaction cache is shared by the process: what other users of it
\* have cached is there when the Agent starts.
InitSynced ==
    /\ Synced
    /\ TransactionStore \in SUBSET TxHashes
    /\ subscribed = {}
    /\ statuses = 0
    /\ pendingHistory = {}
    /\ delivered = <<>>
    /\ knownReceipts = <<>>
    /\ tasks = {}
    /\ txChecks = {}
    /\ txEvents = {}
    /\ ended = {}
    /\ thrown = {}
    /\ api = NoApi

NextReceipts ==
    \/ \E address \in Addresses : subscribe(address)
    \/ \E address \in Addresses, hasStatus \in BOOLEAN : receiptsStatus(address, hasStatus)
    \/ \E p \in pendingHistory, history \in PeerHistories : receiptsHistory(p, history)
    \/ \E p \in pendingHistory : receiptsHistory_failed(p)
    \/ \E t \in tasks, block \in Headers : onReceipts_header(t, block)
    \/ \E t \in tasks : onReceipts_headerFailed(t)
    \/ \E c \in txChecks, root \in Hashes : txCheck_answered(c, root)
    \/ \E c \in txChecks : txCheck_failed(c)
    \/ close_call

SpecReceipts == InitSynced /\ [][NextReceipts]_vars

(***************************************************************************)
(* One subscribed address whose peer sends one status more than above, so  *)
(* that a baseline is followed by two further notifications: the same      *)
(* handlers, an empty TransactionStore, histories of at most one receipt   *)
(* and an Agent that stays open.                                           *)
(***************************************************************************)
MaxRepeatStatuses == MaxStatuses + 1

RepeatAddress == CHOOSE address \in Addresses : TRUE

RepeatHistories == {history \in PeerHistories : Len(history) <= 1}

InitRepeats == InitSynced /\ TransactionStore = {}

NextRepeats ==
    \/ subscribe(RepeatAddress)
    \/ \E hasStatus \in BOOLEAN : receiptsStatus_upTo(MaxRepeatStatuses, RepeatAddress, hasStatus)
    \/ \E p \in pendingHistory, history \in RepeatHistories : receiptsHistory(p, history)
    \/ \E t \in tasks, block \in Headers : onReceipts_header(t, block)
    \/ \E c \in txChecks, root \in Hashes : txCheck_answered(c, root)

SpecRepeats == InitRepeats /\ [][NextRepeats]_vars

(***************************************************************************)
(* The calls whose result is a function of their arguments and of what the *)
(* peer answers: getTransaction, broadcastTransaction, estimateFees and    *)
(* the transport selection of the constructor.                             *)
(***************************************************************************)
MaxTargets == 2        \* targets of an estimateFees call, and their values
MaxFee == 2            \* fee estimates 1..MaxFee

\* A request the peer did not answer, where an answer is a number otherwise.
RpcFailed == Null

\* getTransaction against every argument and every peer.
GetTransactionArgs ==
    {NoArg} \cup {HeightArg(h) : h \in ReceiptHeights}
            \cup {HeaderArg({b}) : b \in Headers}

PeerAnswers(arg) ==
    [header : {{}} \cup {{b} : b \in {b \in Headers :
                    arg.type = "number" /\ arg.height > 0 /\ b.blockHeight = arg.height}},
     root : Hashes \cup {0},
     raw : BOOLEAN]

getTransaction_call(hash, arg, peer) ==
    /\ api = NoApi
    /\ api' = [method |-> "getTransaction", hash |-> hash, arg |-> arg, peer |-> peer,
               result |-> getTransaction(hash, arg, peer)]
    /\ call' = NoCall
    /\ UNCHANGED <<lifecycleVars, BlockStore, acceptedBlocks, receiptVars>>

\* The id of a transaction as the peer writes it in an answer.
hashString(hash) == ToString(hash)

\* What blockchain.transaction.broadcast answers: the id of the transaction
\* it accepted or, in its place, the text of an error.
BroadcastAnswers ==
    {hashString(h) : h \in TxHashes} \cup {"", "bad-txns-inputs-missingorspent"}

\* broadcastTransaction(rawTx) (ElectrumApi.ts 184-189) of the raw
\* transaction with hash `hash`, the request answered with the string
\* `answer` or, answered being FALSE, rejected.
broadcastTransaction_unchecked(hash, answered, answer) ==
    IF ~answered
      THEN [ok |-> FALSE, error |-> ErrRpc, tx |-> NoTransaction]
      ELSE [ok |-> TRUE, error |-> "none", tx |-> transactionToPlain(hash, {})]

broadcastTransaction(hash, answered, answer) ==
    IF ~answered
      THEN [ok |-> FALSE, error |-> ErrRpc, tx |-> NoTransaction]
      ELSE IF answer = hashString(transactionToPlain(hash, {}).transactionHash)
        THEN [ok |-> TRUE, error |-> "none", tx |-> transactionToPlain(hash, {})]
        ELSE [ok |-> FALSE, error |-> answer, tx |-> NoTransaction]

\* Agent.broadcastTransaction(rawTx) (Agent.ts 202-206).
broadcastTransaction_call(hash, answered, answer) ==
    /\ api = NoApi
    /\ api' = [method |-> "broadcastTransaction", hash |-> hash,
               sent |-> synced, answered |-> synced /\ answered, answer |-> answer,
               result |-> IF synced
                            THEN broadcastTransaction(hash, answered, answer)
                            ELSE [ok |-> FALSE, error |-> ErrNotSynced, tx |-> NoTransaction]]
    /\ call' = IF synced
                 THEN [method |-> "query", error |-> "none", rpc |-> TRUE]
                 ELSE [method |-> "query", error |-> ErrNotSynced, rpc |-> FALSE]
    /\ UNCHANGED <<lifecycleVars, BlockStore, acceptedBlocks, receiptVars>>

\* estimateFees(targetBlocks) (Agent.ts 183-188): answers[i] is what the
\* peer answers the request for targetBlocks[i], RpcFailed for a failure.
Fees == {-1} \cup (1..MaxFee)

FeeRequests ==
    UNION {[1..n -> [target : 1..MaxTargets, answer : Fees \cup {RpcFailed}]] :
              n \in 0..MaxTargets}

estimateFees_result_uncaught(requests) ==
    IF requests # <<>> /\ ~connection
      THEN [resolved |-> FALSE, error |-> ErrTypeError, fees |-> <<>>]
      ELSE IF \E i \in DOMAIN requests : requests[i].answer = RpcFailed
        THEN [resolved |-> FALSE, error |-> ErrRpc, fees |-> <<>>]
        ELSE [resolved |-> TRUE, error |-> "none",
              fees |-> [i \in DOMAIN requests |-> requests[i].answer]]

estimateFees_result(requests) ==
    IF requests # <<>> /\ ~connection
      THEN [resolved |-> FALSE, error |-> ErrTypeError, fees |-> <<>>]
      ELSE [resolved |-> TRUE, error |-> "none",
            fees |-> [i \in DOMAIN requests |->
                        IF requests[i].answer = RpcFailed THEN -1
                        ELSE requests[i].answer]]

estimateFees_call(requests) ==
    /\ api = NoApi
    /\ api' = [method |-> "estimateFees", requests |-> requests,
               connection |-> connection, synced |-> synced,
               result |-> estimateFees_result(requests)]
    /\ call' = [method |-> "estimateFees",
                error |-> estimateFees_result(requests).error,
                rpc |-> requests # <<>> /\ connection]
    /\ UNCHANGED <<lifecycleVars, BlockStore, acceptedBlocks, receiptVars>>

(***************************************************************************)
(* The transport selection of the constructor (Agent.ts 57-129): ports     *)
(* tells which ports the peer lists, prefer is peer.preferTransport or     *)
(* "undefined", options tells which proxy URLs are set (they are unless    *)
(* the caller passes false).                                               *)
(***************************************************************************)
Transports == {"WSS", "SSL", "TCP"}
ErrNoTransport == "No suitable transport protocol and port for peer"

\* Agent.ts 396-405.
transportToString(transport) ==
    CASE transport = "WSS" -> "wss"
      [] transport = "SSL" -> "ssl"
      [] transport = "TCP" -> "tcp"

selectTransport_fallback(ports, prefer, options) ==
    IF ports.wss THEN "WSS"
    ELSE IF ports.ssl /\ options.sslProxyUrl THEN "SSL"
    ELSE IF ports.tcp /\ options.tcpProxyUrl THEN "TCP"
    ELSE ErrNoTransport

selectTransport(ports, prefer, options) ==
    LET transport == IF prefer # "undefined"
                       THEN (IF ports[transportToString(prefer)] THEN prefer ELSE "undefined")
                       ELSE "undefined"
    IN  IF ports.wss /\ (transport = "undefined" \/ transport = "WSS") THEN "WSS"
        ELSE IF ports.ssl /\ options.sslProxyUrl
                 /\ (transport = "undefined" \/ transport = "SSL") THEN "SSL"
        ELSE IF ports.tcp /\ options.tcpProxyUrl
                 /\ (transport = "undefined" \/ transport = "TCP") THEN "TCP"
        ELSE ErrNoTransport

constructor(ports, prefer, options) ==
    /\ api = NoApi
    /\ api' = [method |-> "constructor", ports |-> ports, prefer |-> prefer,
               options |-> options, result |-> selectTransport(ports, prefer, options)]
    /\ call' = NoCall
    /\ UNCHANGED <<lifecycleVars, BlockStore, acceptedBlocks, receiptVars>>

(***************************************************************************)
(* getTransactionMerkleRoot(hash, height) (ElectrumApi.ts 143-172). A byte *)
(* string is a sequence of numbers, reversed and concatenated as the code  *)
(* reverses and concatenates arrays. The double SHA-256 is a function that *)
(* gives different digests for different inputs: the digest of a string is *)
(* written as the string behind a mark that no byte has.                   *)
(***************************************************************************)
MaxPath == 2           \* hashes in the merkle branch of a proof
MaxPos == 3            \* positions 0..MaxPos of a transaction in its block

\* hexToBytes of the hex string of hash h: two bytes, so that the string
\* and its reverse differ.
hexToBytes(h) == <<h, 0>>

reverse(bytes) == [k \in 1..Len(bytes) |-> bytes[Len(bytes) + 1 - k]]

DigestMark == 99
sha256d(bytes) == <<DigestMark>> \o bytes

\* What blockchain.transaction.get_merkle answers.
MerkleProofs ==
    [pos : 0..MaxPos,
     merkle : UNION {[1..n -> Hashes] : n \in 0..MaxPath}]

\* The loop of lines 153-168 from the k-th hash of the branch on, with
\* index i and node as they stand there.
RECURSIVE merkleLoop_noHalving(_, _, _, _)
merkleLoop_noHalving(merkle, k, i, node) ==
    IF k > Len(merkle) THEN node
    ELSE LET pairNode == reverse(hexToBytes(merkle[k]))
             concatenated == IF i % 2 = 0 THEN node \o pairNode
                                          ELSE pairNode \o node
         IN  merkleLoop_noHalving(merkle, k + 1, i, sha256d(concatenated))

RECURSIVE merkleLoop(_, _, _, _)
merkleLoop(merkle, k, i, node) ==
    IF k > Len(merkle) THEN node
    ELSE LET pairNode == reverse(hexToBytes(merkle[k]))
             concatenated == IF i % 2 = 0 THEN node \o pairNode
                                          ELSE pairNode \o node
         IN  merkleLoop(merkle, k + 1, i \div 2, sha256d(concatenated))

\* The bytes of the root the method returns as a hex string.
getTransactionMerkleRoot(hash, proof) ==
    reverse(merkleLoop(proof.merkle, 1, proof.pos, reverse(hexToBytes(hash))))

getTransactionMerkleRoot_call(hash, proof) ==
    /\ api = NoApi
    /\ api' = [method |-> "getTransactionMerkleRoot", hash |-> hash, proof |-> proof,
               result |-> getTransactionMerkleRoot(hash, proof)]
    /\ call' = NoCall
    /\ UNCHANGED <<lifecycleVars, BlockStore, acceptedBlocks, receiptVars>>

(***************************************************************************)
(* Decoding the inputs of a transaction (ElectrumApi.ts 278-321, 332-417). *)
(* An input is its number of script chunks, its number of witness items    *)
(* and whether it is the input of a coinbase transaction; `payments` is    *)
(* what the BitcoinJS payments functions do with the data they are handed: *)
(* they give an address, or they throw when the data is not a public key   *)
(* or a script.                                                            *)
(***************************************************************************)
MaxChunks == 3         \* script chunks of an input
MaxWitness == 3        \* witness items of an input

TxInputs == [coinbase : BOOLEAN, chunks : 0..MaxChunks, witness : 0..MaxWitness]
PaymentsOutcomes == {"address", "throws"}

\* deriveAddressFromInput (ElectrumApi.ts 332-417): "undefined" for a shape
\* outside the table.
deriveAddressFromInput(input, payments) ==
    IF \/ (input.chunks = 2 /\ input.witness = 0)
       \/ (input.chunks = 1 /\ input.witness = 2)
       \/ (input.chunks = 0 /\ input.witness = 2)
       \/ (input.chunks > 2 /\ input.witness = 0)
       \/ (input.chunks = 1 /\ input.witness > 2)
       \/ (input.chunks = 0 /\ input.witness > 2)
      THEN payments
      ELSE "undefined"

\* inputToPlain (ElectrumApi.ts 308-321): the address field, or "throws".
inputToPlain(input, payments) ==
    LET address == deriveAddressFromInput(input, payments)
    IN  IF address = "undefined" THEN "null" ELSE address

\* transactionToPlain (ElectrumApi.ts 278-306) of a transaction with the
\* one input `input`.
transactionToPlain_call(input, payments) ==
    /\ api = NoApi
    /\ api' = [method |-> "transactionToPlain", input |-> input, payments |-> payments,
               result |-> IF inputToPlain(input, payments) = "throws"
                            THEN [ok |-> FALSE, isCoinbase |-> FALSE, address |-> "null"]
                            ELSE [ok |-> TRUE, isCoinbase |-> input.coinbase,
                                  address |-> inputToPlain(input, payments)]]
    /\ call' = NoCall
    /\ UNCHANGED <<lifecycleVars, BlockStore, acceptedBlocks, receiptVars>>

(***************************************************************************)
(* getHistory (ElectrumApi.ts 65-120). The peer answers get_history with   *)
(* `history`; `failedHeader` is the height whose getBlockHeader request    *)
(* fails and `failedTx` the transaction whose getTransaction request       *)
(* fails, Null for none. The result holds the transactions returned and    *)
(* the receipts for which a request was made.                              *)
(***************************************************************************)
MaxSince == 2          \* highest block height of a receipt and of sinceBlockHeight

HistoryHeights == -1..MaxSince

HistoryAnswers ==
    {h \in UNION {[1..n -> [tx_hash : TxHashes, height : HistoryHeights]] :
                     n \in 0..MaxReceipts} :
        \A i, j \in DOMAIN h : h[i].tx_hash = h[j].tx_hash => i = j}

\* knownTxs (ElectrumApi.ts 67-72): the known height of each known hash.
KnownTxs == UNION {[known -> HistoryHeights] : known \in SUBSET TxHashes}

\* Number.MAX_SAFE_INTEGER, above every block height.
MAX_SAFE_INTEGER == MaxSince + 1

\* limit = Infinity, above the length of every history.
Infinity == MaxReceipts + 1

\* `blockHeight || Number.MAX_SAFE_INTEGER`: 0 is falsy, -1 is not.
sortKey(blockHeight) ==
    IF blockHeight = 0 THEN MAX_SAFE_INTEGER ELSE blockHeight

\* One receipt put into a list sorted by height DESC, behind its equals
\* (Array.prototype.sort is stable).
RECURSIVE insertDesc(_, _)
insertDesc(sorted, receipt) ==
    IF sorted = <<>> THEN <<receipt>>
    ELSE IF sortKey(Head(sorted).blockHeight) >= sortKey(receipt.blockHeight)
           THEN <<Head(sorted)>> \o insertDesc(Tail(sorted), receipt)
           ELSE <<receipt>> \o sorted

RECURSIVE sortDesc(_)
sortDesc(history) ==
    IF history = <<>> THEN <<>>
    ELSE insertDesc(sortDesc(SubSeq(history, 1, Len(history) - 1)),
                    history[Len(history)])

\* Array.prototype.slice(0, end): a negative end counts from the end.
slice(history, end) ==
    LET last == IF end < 0 THEN Len(history) + end ELSE end
    IN  SubSeq(history, 1, IF last > Len(history) THEN Len(history) ELSE last)

\* Array.prototype.findIndex with the predicate of line 86, counted
\* from 0; -1 when no receipt is older than sinceBlockHeight.
firstUnwantedHistoryIndex(history, sinceBlockHeight) ==
    LET unwanted == {i \in DOMAIN history :
                        /\ history[i].blockHeight > 0
                        /\ history[i].blockHeight < sinceBlockHeight}
    IN  IF unwanted = {} THEN -1
        ELSE (CHOOSE i \in unwanted : \A j \in unwanted : i <= j) - 1

\* Lines 76-88: sorted, cut to the limit, cut at the first unwanted receipt.
wantedHistory(history, sinceBlockHeight, limit) ==
    LET sorted == sortDesc(history)
        limited == IF limit < Infinity THEN slice(sorted, limit) ELSE sorted
    IN  IF sinceBlockHeight > 0
          THEN slice(limited, firstUnwantedHistoryIndex(limited, sinceBlockHeight))
          ELSE limited

\* Math.max(blockHeight, 0)
max0(blockHeight) == IF blockHeight > 0 THEN blockHeight ELSE 0

\* Line 96: the receipt is known, at the height it has now.
isKnown(knownTxs, receipt) ==
    /\ receipt.transactionHash \in DOMAIN knownTxs
    /\ knownTxs[receipt.transactionHash] = max0(receipt.blockHeight)

\* The loop of lines 94-119 from the receipts `rest` on.
RECURSIVE getHistory_loop(_, _, _, _, _, _)
getHistory_loop(rest, knownTxs, failedHeader, failedTx, attempted, txs) ==
    IF rest = <<>> THEN [txs |-> txs, attempted |-> attempted]
    ELSE LET receipt == Head(rest)
         IN  IF isKnown(knownTxs, receipt)
               THEN getHistory_loop(Tail(rest), knownTxs, failedHeader, failedTx,
                                    attempted, txs)
             ELSE IF receipt.blockHeight > 0 /\ receipt.blockHeight = failedHeader
               THEN [txs |-> txs, attempted |-> Append(attempted, receipt)]
             ELSE IF receipt.transactionHash = failedTx
               THEN getHistory_loop(Tail(rest), knownTxs, failedHeader, failedTx,
                                    Append(attempted, receipt), txs)
             ELSE getHistory_loop(Tail(rest), knownTxs, failedHeader, failedTx,
                                  Append(attempted, receipt),
                                  Append(txs, [transactionHash |-> receipt.transactionHash,
                                               blockHeight |-> IF receipt.blockHeight > 0
                                                                 THEN receipt.blockHeight
                                                                 ELSE Null]))

getHistory(history, sinceBlockHeight, knownTxs, limit, failedHeader, failedTx) ==
    getHistory_loop(wantedHistory(getReceipts(history), sinceBlockHeight, limit),
                    knownTxs, failedHeader, failedTx, <<>>, <<>>)

getHistory_call(history, sinceBlockHeight, knownTxs, limit, failedHeader, failedTx) ==
    /\ api = NoApi
    /\ api' = [method |-> "getHistory", history |-> history,
               sinceBlockHeight |-> sinceBlockHeight, knownTxs |-> knownTxs,
               limit |-> limit, failedHeader |-> failedHeader, failedTx |-> failedTx,
               result |-> getHistory(history, sinceBlockHeight, knownTxs, limit,
                                     failedHeader, failedTx)]
    /\ call' = NoCall
    /\ UNCHANGED <<lifecycleVars, BlockStore, acceptedBlocks, receiptVars>>

\* An Agent before sync() or synced, nothing subscribed. Each behaviour
\* makes one of the calls, before or after close(): none of them depends on
\* an earlier one.
InitApi == Init \/ (Synced /\ InitReceipts)

NextApi ==
    \/ \E hash \in TxHashes, arg \in GetTransactionArgs :
          \E peer \in PeerAnswers(arg) : getTransaction_call(hash, arg, peer)
    \/ \E hash \in TxHashes, answered \in BOOLEAN, answer \in BroadcastAnswers :
          broadcastTransaction_call(hash, answered, answer)
    \/ \E requests \in FeeRequests : estimateFees_call(requests)
    \/ \E ports \in [wss : BOOLEAN, ssl : BOOLEAN, tcp : BOOLEAN],
          prefer \in Transports \cup {"undefined"},
          options \in [sslProxyUrl : BOOLEAN, tcpProxyUrl : BOOLEAN] :
          constructor(ports, prefer, options)
    \/ \E hash \in TxHashes, proof \in MerkleProofs :
          getTransactionMerkleRoot_call(hash, proof)
    \/ \E input \in TxInputs, payments \in PaymentsOutcomes :
          transactionToPlain_call(input, payments)
    \/ close_call

SpecApi == InitApi /\ [][NextApi]_vars

\* getHistory on its own: one call, before or after close().
NextHistory ==
    \/ /\ api = NoApi
       /\ \E history \in HistoryAnswers, sinceBlockHeight \in 0..MaxSince,
             knownTxs \in KnownTxs, limit \in (0..MaxReceipts) \cup {Infinity},
             failedHeader \in {Null} \cup (1..MaxSince),
             failedTx \in {Null} \cup TxHashes :
             getHistory_call(history, sinceBlockHeight, knownTxs, limit,
                             failedHeader, failedTx)
    \/ close_call

SpecHistory == InitApi /\ [][NextHistory]_vars

(***************************************************************************)
(* Properties.                                                             *)
(***************************************************************************)

\* C1: in every reachable state, synced implies that the Agent is neither
\* syncing nor handshaking.
C1_SyncedExcludesSyncingAndHandshaking ==
    synced => (~syncing /\ ~handshaking)

\* C2: over the life of an Agent the CLOSE event is fired at most once,
\* however often and from wherever close() is called.
C2_CloseFiredAtMostOnce ==
    events.close <= 1

\* C3: a sync() whose handshake failed (incompatible protocol, wrong genesis
\* or handshake timeout) has closed the Agent: exactly one CLOSE was fired,
\* with the failure as its reason, and SYNCING was never fired.
C3_HandshakeFailureFiresClose ==
    \A i \in SyncIds :
        (syncPc[i] = "rejected" /\ syncResult[i] \in HandshakeErrors)
            => /\ events.close = 1
               /\ syncResult[i] \in closeReasons
               /\ events.syncing = 0

\* C4: a sync() that passed the handshake and then ran into the block
\* timeout has fired CLOSE with the reason "Block timeout".
C4_BlockTimeoutFiresClose ==
    \A i \in SyncIds :
        (syncPc[i] = "rejected" /\ syncResult[i] = ErrBlockTimeout)
            => ErrBlockTimeout \in closeReasons

\* C5: a call of a synced-guarded query method while synced is false fails
\* with the not-synced error, sends no request to the peer and changes no
\* state of the Agent (flags, connection, ping interval and ping timers).
C5_QueryWhileNotSyncedFails ==
    [][(call'.method = "query" /\ ~synced)
          => /\ call'.error = ErrNotSynced
             /\ call'.rpc = FALSE
             /\ UNCHANGED <<agentState, pingTimers, events, closeReasons>>]_vars

\* C5 happens: a query was refused while a head sync was under way.
C5_Witness ==
    /\ call.method = "query"
    /\ call.error = ErrNotSynced
    /\ ~synced
    /\ syncing

\* C6: once CLOSE has been fired, a call of a public method changes no
\* state of the Agent and fires no event, and synced and syncing stay false.
C6_NoEffectAfterClose ==
    [][events.close >= 1
          => /\ call'.method # "none"
                  => UNCHANGED <<agentState, pingTimers, events, closeReasons>>
             /\ ~synced' /\ ~syncing']_vars

\* C7: for every height h > 0 whose stored header was accepted by onBlock,
\* a header stored at h-1 has the block hash that the header at h names as
\* its previous hash.
C7_StoredChainIsLinked ==
    \A b \in BlockStore :
        (b.blockHeight > 0 /\ b.blockHeight \in acceptedBlocks)
            => \A p \in BlockStoreGet(BlockStore, b.blockHeight - 1) :
                   p.blockHash = b.prevHash

\* C8: SYNCED is fired only after a BLOCK event, that is, only a header
\* that passed the acceptance rule makes the Agent synced.
C8_SyncedOnlyAfterAcceptedBlock ==
    events.synced > 0 => events.block > 0

\* C9: over the life of an Agent SYNCING is fired no more than once and
\* SYNCED no more than once, however many sync() calls overlap.
C9_SyncingAndSyncedFiredOnce ==
    /\ events.syncing <= 1
    /\ events.synced <= 1

\* C10: a liveness probe is retried once: no ping is ever made after two
\* failed tries, the second timeout having closed the Agent.
C10_CloseOnSecondPingTimeout ==
    \A t \in pingTimers : t.failedTries <= 1

\* C11: once close() has returned, no ping timer acts any more: no step
\* that is not a call of a public method starts a further ping attempt or
\* fires a further CLOSE.
C11_CloseCancelsPingActivity ==
    [][(events.close >= 1 /\ call'.method = "none")
          => /\ \A t \in pingTimers' :
                    \E u \in pingTimers : u.failedTries = t.failedTries
             /\ events'.close = events.close]_vars

\* The calls of onReceipts for an address, and the first of them.
deliveriesOf(address) ==
    {n \in DOMAIN delivered : delivered[n].address = address}

isBaseline(n) ==
    \A m \in deliveriesOf(delivered[n].address) : n <= m

\* C12: for every address, knownReceipts has an entry exactly when a
\* receipts notification of that address has reached onReceipts; the first
\* one is the baseline, stored receipt by receipt under its transaction
\* hash, and it starts no request and fires no event.
C12_BaselineIsFirstNotification ==
    \A address \in Addresses :
        /\ (address \in DOMAIN knownReceipts) <=> (deliveriesOf(address) # {})
        /\ \A n \in deliveriesOf(address) :
              isBaseline(n) =>
                /\ knownReceipts[address] =
                       {delivered[n].receipts[i] : i \in DOMAIN delivered[n].receipts}
                /\ n \in ended
                /\ ~\E c \in txChecks : c.n = n
                /\ ~\E e \in txEvents : e.n = n
                /\ ~\E t \in tasks : t.n = n

\* C12 happens: a baseline of two receipts is stored and a later
\* notification of the same address was handled against it, while another
\* subscribed address has had no notification.
C12_Witness ==
    \E address \in DOMAIN knownReceipts :
        /\ Cardinality(knownReceipts[address]) = 2
        /\ Cardinality(deliveriesOf(address)) = 2
        /\ \E other \in subscribed : other \notin DOMAIN knownReceipts

\* The events fired for the receipt of transaction `hash` in the call n.
eventsOf(n, hash) ==
    {e \in txEvents : e.n = n /\ e.transactionHash = hash}

\* C13: in every notification after the baseline, a receipt the baseline
\* holds with the same hash and height starts no request and fires no
\* event; any other receipt whose transaction was retrieved (and, at a
\* height above 0, proven) has fired exactly one event: TRANSACTION_MINED
\* with the header of the receipt's height when that height is above 0,
\* TRANSACTION_ADDED otherwise.
C13_OneEventPerChangedReceipt ==
    \A n \in DOMAIN delivered :
      ~isBaseline(n) =>
        \A i \in DOMAIN delivered[n].receipts :
          LET r == delivered[n].receipts[i]
              known == knownReceipts[delivered[n].address]
          IN  IF ~receiptChanged(known, r)
                THEN /\ eventsOf(n, r.transactionHash) = {}
                     /\ ~\E c \in txChecks : c.n = n /\ c.receipt = r
                     /\ ~\E t \in tasks : t.n = n /\ Head(t.rest) = r
                ELSE \A c \in txChecks :
                       (c.n = n /\ c.receipt = r /\ c.state = "resolved") =>
                         /\ Cardinality(eventsOf(n, r.transactionHash)) = 1
                         /\ \A e \in eventsOf(n, r.transactionHash) :
                              IF r.blockHeight > 0
                                THEN /\ e.event = "TRANSACTION_MINED"
                                     /\ e.block # {}
                                     /\ \A b \in e.block : b.blockHeight = r.blockHeight
                                ELSE /\ e.event = "TRANSACTION_ADDED"
                                     /\ e.block = {}

\* C13 happens: a notification after the baseline held one receipt the
\* baseline has and one that is new at a height above 0, and
\* TRANSACTION_MINED was fired for the new one.
C13_Witness ==
    \E n \in DOMAIN delivered :
        /\ ~isBaseline(n)
        /\ Len(delivered[n].receipts) = 2
        /\ \E i \in DOMAIN delivered[n].receipts :
              ~receiptChanged(knownReceipts[delivered[n].address], delivered[n].receipts[i])
        /\ \E e \in txEvents : e.n = n /\ e.event = "TRANSACTION_MINED"

\* C14: a failure while one receipt is handled does not stop the others:
\* once a call of onReceipts after the baseline is over, every receipt of
\* its notification that differs from the baseline has had its transaction
\* check started, except a receipt whose own handling threw.
C14_FailureSkipsOnlyItsReceipt ==
    \A n \in ended :
      ~isBaseline(n) =>
        \A i \in DOMAIN delivered[n].receipts :
          LET r == delivered[n].receipts[i]
          IN  receiptChanged(knownReceipts[delivered[n].address], r)
                => \/ \E c \in txChecks : c.n = n /\ c.receipt = r
                   \/ [n |-> n, receipt |-> r] \in thrown

\* C16: the calls of onReceipts are made in the order in which the peer
\* sent the status notifications.
C16_ReceiptsInNotificationOrder ==
    \A m, n \in DOMAIN delivered : m < n => delivered[m].k < delivered[n].k

\* C20: for a receipt at a height above 0 whose transaction the cache
\* holds, the check is a merkle proof against the header of that height;
\* TRANSACTION_MINED is fired for it only when the proof succeeded, and no
\* event when it failed.
C20_StoredTransactionIsProven ==
    \A c \in txChecks :
      (c.kind # "getTransaction" /\ c.receipt.blockHeight > 0) =>
        /\ c.block # {}
        /\ \A b \in c.block : b.blockHeight = c.receipt.blockHeight
        /\ eventsOf(c.n, c.receipt.transactionHash) # {} =>
              /\ c.kind = "proofTransaction"
              /\ c.state = "resolved"
              /\ \A b \in c.block : c.root = merkleRoot(b)
        /\ c.state = "rejected" => eventsOf(c.n, c.receipt.transactionHash) = {}

\* C20 happens: the proof of a cached transaction has succeeded and fired
\* TRANSACTION_MINED, and the proof of another has failed.
C20_Witness ==
    /\ \E c \in txChecks :
          /\ c.kind = "proofTransaction" /\ c.state = "resolved"
          /\ \E e \in eventsOf(c.n, c.receipt.transactionHash) :
                e.event = "TRANSACTION_MINED"
    /\ \E c \in txChecks :
          /\ c.kind = "proofTransaction" /\ c.state = "rejected" /\ c.root # 0

\* The header getTransaction was given or fetched, in the last call of it.
headerGiven ==
    IF api.arg.type = "object" THEN api.arg.header
    ELSE IF api.arg.type = "number" /\ api.arg.height > 0 THEN api.peer.header
    ELSE {}

\* C15: getTransaction given a header, or a height above 0, succeeds only
\* when the merkle root computed from the peer's branch is the header's,
\* and on a mismatch it fails and returns no transaction; the transaction
\* it returns has its block hash, height and timestamp set exactly when a
\* header was given, and without a header or with a height of 0 or less no
\* merkle branch is requested and the three fields are null.
C15_TransactionProvenAgainstHeader ==
    api.method = "getTransaction" =>
      LET given == api.arg.type = "object"
                     \/ (api.arg.type = "number" /\ api.arg.height > 0)
          res   == api.result
      IN  /\ (given /\ res.ok) =>
                 /\ headerGiven # {}
                 /\ \A b \in headerGiven : api.peer.root = merkleRoot(b)
          /\ (given /\ \E b \in headerGiven : api.peer.root # merkleRoot(b)) =>
                 /\ ~res.ok
                 /\ res.tx = NoTransaction
          /\ res.ok =>
                 /\ res.tx.transactionHash = api.hash
                 /\ given <=> res.tx.blockHash # Null
                 /\ given <=> res.tx.blockHeight # Null
                 /\ given <=> res.tx.timestamp # Null
                 /\ \A b \in headerGiven : /\ res.tx.blockHash = b.blockHash
                                          /\ res.tx.blockHeight = b.blockHeight
          /\ ~given => ~res.merkle /\ ~res.fetched

\* C15 happens: a transaction was returned with the block fields of the
\* header fetched for a height above 0, its proof having matched.
C15_Witness ==
    /\ api.method = "getTransaction"
    /\ api.arg.type = "number"
    /\ api.result.ok
    /\ api.result.merkle
    /\ api.result.tx.blockHeight > 0

\* C17: broadcastTransaction returns the parsed transaction exactly when
\* the string the peer answers is the hash computed locally; for any
\* other string it fails with an error whose message is that string.
C17_BroadcastComparesHash ==
    (api.method = "broadcastTransaction" /\ api.answered) =>
      /\ api.result.ok <=> api.answer = hashString(api.hash)
      /\ api.result.ok => api.result.tx = transactionToPlain(api.hash, {})
      /\ ~api.result.ok => api.result.error = api.answer

\* C17 happens: the peer answered a broadcast with the hash of another
\* transaction, and the call failed with that string.
C17_Witness ==
    /\ api.method = "broadcastTransaction"
    /\ api.answered
    /\ api.answer \in {hashString(h) : h \in TxHashes}
    /\ ~api.result.ok
    /\ api.result.error = api.answer

\* What C18 says estimateFees gives: a list as long as the targets, the
\* peer's estimate where the request succeeded and -1 where it failed.
feesAsClaimed ==
    /\ api.result.resolved
    /\ Len(api.result.fees) = Len(api.requests)
    /\ \A i \in DOMAIN api.requests :
          api.result.fees[i] = IF api.requests[i].answer = RpcFailed THEN -1
                               ELSE api.requests[i].answer

applies(transport) ==
    CASE transport = "WSS" -> api.ports.wss
      [] transport = "SSL" -> api.ports.ssl /\ api.options.sslProxyUrl
      [] transport = "TCP" -> api.ports.tcp /\ api.options.tcpProxyUrl

firstApplicable ==
    IF applies("WSS") THEN "WSS"
    ELSE IF applies("SSL") THEN "SSL"
    ELSE IF applies("TCP") THEN "TCP"
    ELSE ErrNoTransport

preferredHasPort ==
    api.prefer # "undefined" /\ api.ports[transportToString(api.prefer)]

\* C19 as claimed: a preferred transport whose port the peer lists is
\* used; otherwise the first of WSS, SSL, TCP that applies is used; the
\* construction fails only when none of them applies.
C19_PreferredTransportIsUsed ==
    api.method = "constructor" =>
      /\ api.result = IF preferredHasPort THEN api.prefer ELSE firstApplicable
      /\ api.result = ErrNoTransport => \A t \in Transports : ~applies(t)

\* C19 amended: a preferred transport whose port the peer lists is used
\* when it applies (for SSL and TCP: its proxy URL is set) and otherwise the
\* construction fails; without such a preference the first of WSS, SSL,
\* TCP that applies is used, and the construction fails when none does.
C19_PreferredTransportIsEnforced ==
    api.method = "constructor" =>
      api.result = IF preferredHasPort
                     THEN (IF applies(api.prefer) THEN api.prefer ELSE ErrNoTransport)
                     ELSE firstApplicable

\* C19 happens: the peer lists all three ports, SSL is preferred and its
\* proxy is set, and SSL is used.
C19_Witness ==
    /\ api.method = "constructor"
    /\ api.ports.wss /\ api.ports.ssl /\ api.ports.tcp
    /\ api.prefer = "SSL"
    /\ api.options.sslProxyUrl
    /\ api.result = "SSL"

\* 2 to the power n.
RECURSIVE pow2(_)
pow2(n) == IF n = 0 THEN 1 ELSE 2 * pow2(n - 1)

\* The node of level n of the fold C21 describes: level 0 is the reversed
\* transaction hash, and level n joins level n-1 with the n-th reversed
\* pair hash, the node first when bit n-1 of pos is 0, the pair first when
\* it is 1.
RECURSIVE foldNode(_, _, _)
foldNode(hash, proof, n) ==
    IF n = 0 THEN reverse(hexToBytes(hash))
    ELSE LET node == foldNode(hash, proof, n - 1)
             pair == reverse(hexToBytes(proof.merkle[n]))
         IN  IF (proof.pos \div pow2(n - 1)) % 2 = 0
               THEN sha256d(node \o pair)
               ELSE sha256d(pair \o node)

\* C21: getTransactionMerkleRoot returns the byte-reversed last node of
\* the fold over the branch, for every position and every branch; for an
\* empty branch that is the transaction hash itself.
C21_MerkleRootIsTheFold ==
    api.method = "getTransactionMerkleRoot" =>
      /\ api.result = reverse(foldNode(api.hash, api.proof, Len(api.proof.merkle)))
      /\ api.proof.merkle = <<>> => api.result = hexToBytes(api.hash)

\* C21 happens: a branch of two hashes was folded for a transaction at
\* position 1, pair first at the first level and node first at the second.
C21_Witness ==
    /\ api.method = "getTransactionMerkleRoot"
    /\ api.proof.pos = 1
    /\ Len(api.proof.merkle) = 2
    /\ api.proof.merkle[1] # api.proof.merkle[2]
    /\ api.result = reverse(sha256d(
           sha256d(reverse(hexToBytes(api.proof.merkle[1]))
                     \o reverse(hexToBytes(api.hash)))
             \o reverse(hexToBytes(api.proof.merkle[2]))))

\* C22: a coinbase transaction decodes, with isCoinbase true and a null
\* address on its input, whatever the number of script chunks and witness
\* items of that input.
C22_CoinbaseInputHasNoAddress ==
    (api.method = "transactionToPlain" /\ api.input.coinbase) =>
      /\ api.result.ok
      /\ api.result.isCoinbase
      /\ api.result.address = "null"

\* C23: a promise of sync() that resolved after the handshake and the head
\* sync resolved with true.
C23_SyncResolvesTrue ==
    \A i \in SyncIds : syncPc[i] = "resolved" => syncResult[i] = "true"

\* C24: once a sync() has rejected with a handshake error or the block
\* timeout, no step makes the Agent synced or fires SYNCED.
C24_NoSyncedAfterRejectedSync ==
    [][(\E i \in SyncIds : /\ syncPc[i] = "rejected"
                           /\ syncResult[i] \in HandshakeErrors \cup {ErrBlockTimeout})
          => /\ synced' => synced
             /\ events'.synced = events.synced]_vars

\* The notification of the same address delivered just before notification n.
previousDelivery(n, m) ==
    /\ m \in deliveriesOf(delivered[n].address)
    /\ m < n
    /\ \A x \in deliveriesOf(delivered[n].address) : ~(m < x /\ x < n)

\* C25: across the notifications of one address a receipt is reported once:
\* when a notification has fired TRANSACTION_ADDED or TRANSACTION_MINED for
\* a receipt, the next notification of that address, repeating the receipt
\* with the same block height, fires no event for it.
C25_RepeatedReceiptIsNotReportedAgain ==
    \A n \in DOMAIN delivered, m \in DOMAIN delivered :
      previousDelivery(n, m) =>
        \A i \in DOMAIN delivered[n].receipts, j \in DOMAIN delivered[m].receipts :
          LET r == delivered[n].receipts[i]
          IN  (delivered[m].receipts[j] = r /\ eventsOf(m, r.transactionHash) # {})
                => eventsOf(n, r.transactionHash) = {}
\* The receipts of a history as a set.
receiptsOf(history) == {history[i] : i \in DOMAIN history}

\* C26: a getHistory call with sinceBlockHeight > 0, no limit and no failing
\* request makes a request for exactly the receipts that are unconfirmed
\* (height <= 0) or at sinceBlockHeight or above, except those known with
\* the same height.
C26_HistorySinceKeepsAllWanted ==
    (/\ api.method = "getHistory"
     /\ api.sinceBlockHeight > 0
     /\ api.limit = Infinity
     /\ api.failedHeader = Null /\ api.failedTx = Null)
      => receiptsOf(api.result.attempted) =
           {r \in receiptsOf(getReceipts(api.history)) :
               /\ r.blockHeight <= 0 \/ r.blockHeight >= api.sinceBlockHeight
               /\ ~(/\ r.transactionHash \in DOMAIN api.knownTxs
                    /\ api.knownTxs[r.transactionHash] = r.blockHeight)}
=============================================================================
